---- MODULE Spec2Model ----
(***************************************************************************)
(* Model of the region API and concurrency controller of the Verona       *)
(* runtime GC benchmark (src/src/rt/region/region_api.h): the             *)
(* Open/Closed/Collecting state word, the owners task refcount, isAlive,  *)
(* the GC tasks that close_region schedules and region_release; and of    *)
(* the objects of one region under create_object, incref, decref and      *)
(* region_collect for the three region types.                             *)
(***************************************************************************)
EXTENDS Integers, Sequences, FiniteSets, TLC

\* ------------------------------------------------------------------ bounds
\* Number of mutator threads (behaviours) that open the region for work.
NumMutators == 2
\* Total number of open_region(for_work) calls the mutators make together.
MaxOpens == 3

\* Number of objects create_object makes in the region besides the entry point.
MaxObjs == 2
\* Counted references the mutator's local variables hold at one time.
MaxHeld == 2

Mutators == 1..NumMutators
\* One GC task can be scheduled per close after work.
Tasks == 1..MaxOpens

\* The single region of the concurrency model (frames name it).
R == "R"

VARIABLES
  state,      \* RegionBase::state: "Open" | "Closed" | "Collecting"
  owners,     \* RegionBase::owners (task refcount)
  isAlive,    \* RegionBase::isAlive
  mpc,        \* mutator -> position in open_region / close_region
  mstack,     \* mutator -> thread-local RegionContext frame stack
  opens,      \* number of open_region(for_work) calls started so far
  tpc,        \* GC task -> position in the gc_task closure ("none": not made)
  tstack,     \* GC task's worker thread frame stack while it runs the task
  rpc,        \* owner's position in region_release
  releasedBy, \* who ran region_physical_release, in order ("owner" | "task")
  badAccess,  \* a step touched the region's memory after its physical release
  lateDeref,  \* a GC task or mutator touched the region after region_release returned
  assertFailed, \* an assert(success) of close_region failed
  observed,   \* GC task -> what its reg->isAlive.load() returned ("none": not run yet)
  seen,       \* GC task -> the state its compare-exchange found (`closed` in open_region)
  raced,      \* a thread touched the region's internal structures while another held the region
  found,      \* mutator -> the state its first compare-exchange found (`closed`), until it closes
  rtype,      \* Region::get_type of the region whose objects are modelled
  alloc,      \* the objects of the region (the entry point included)
  fld,        \* object -> field -> the object it points to, or Null
  rc,         \* object -> reference count (Rc regions)
  lins,       \* the suspicious set of an Rc region (the Lins stack)
  held,       \* object -> counted references held by the mutator's locals
  nextId,     \* number of objects created so far by create_object
  lastOp,     \* the API call that produced this state
  lastFreed,  \* the objects that call deallocated
  lastSusp,   \* the suspicious set that region_collect or decref started from
  lastCalls,  \* the callback invocations of that call, in order
  lastLogs,   \* the number of default log lines that call wrote
  frames,     \* one thread's RegionContext stack of frames (entry point, region), top first
  rstate,     \* region -> RegionBase::state, for the regions that thread nests
  rsize,      \* region -> number of objects in it (what debug_size counts)
  rowners,    \* region -> RegionBase::owners
  acted,      \* the last API call of that thread and the region it acted on
  xref,       \* the ExternalRef handle that thread created (NoRef: none yet)
  xtarget,    \* the handle's target object: "reachable" | "unreachable" | "freed"
  xalive,     \* region -> region_release has not been called on it
  xres,       \* what the last is_external_reference_valid call returned
  xassert,    \* the assert of a use_external_reference call failed
  rtypes,     \* region -> Region::get_type, for the regions that thread nests
  merr,       \* how a merge call ended the process ("none": it has not)
  gc_callback \* thread -> RegionContext::gc_callback of its thread-local context

\* The words of the concurrency controller.
cvars == <<state, owners, isAlive, mpc, mstack, opens, tpc, tstack, rpc,
           releasedBy, badAccess, lateDeref, assertFailed, observed, seen, found,
           raced>>

\* The locals of the gc_task closures.
tlocals == <<observed, seen>>

\* The objects of a region and the mutator's references into it.
hvars == <<rtype, alloc, fld, rc, lins, held, nextId, lastOp, lastFreed, lastSusp,
           lastCalls, lastLogs>>

\* One thread that opens regions inside one another.
xvars == <<xref, xtarget, xalive, xres, xassert>>

nvars == <<frames, rstate, rsize, rowners, acted, xvars, rtypes, merr, gc_callback>>

vars == <<cvars, hvars, nvars>>

\* Number of times region_physical_release has run.
released == Len(releasedBy)

\* The region's memory has been returned to the allocator.
freed == released > 0

\* A thread other than the releasing owner dereferences the region now.
Touch ==
  /\ badAccess' = (badAccess \/ freed)
  /\ lateDeref' = (lateDeref \/ rpc = "done")

NoTouch == UNCHANGED <<badAccess, lateDeref>>

\* ------------------------------------------------------- RegionBase atomics
\* owners.fetch_sub(1): the new value of owners.
OwnersAfterDec == owners - 1

\* task_dec testing the old count for truth instead of for 1.
task_dec_result_NonZero == owners # 0

\* The value task_dec() returns: the old count was 1.
task_dec_result == owners = 1

\* schedule_gc without its task_inc.
OwnersAfterInc_Forgotten == owners

\* owners.fetch_add(1).
OwnersAfterInc == owners + 1

\* RegionContext::push on a frame stack.
push(stk, r) == <<r>> \o stk

\* A close_region that leaves its frame on the stack.
pop_Forgotten(stk) == stk

\* RegionContext::pop on a frame stack.
pop(stk) == Tail(stk)

\* ================================================================ objects
\* The entry point (the iso object that names the region).
Entry == 0

\* nullptr.
Null == -1

\* The test objects (class C1) have two pointer fields, f1 and f2.
NumFields == 2

Fields == 1..NumFields

\* The objects create_object can make, in the order it makes them.
Objs == 1..MaxObjs

\* The objects of the distant-cycle test: n1, n2, n3.
ScenarioObjs == 3

\* The entry point, the objects create_object can make, and the objects of
\* the distant-cycle test.
Cells == {Entry} \cup Objs \cup (1..ScenarioObjs)

RegionTypes == {"Trace", "Arena", "Rc"}

\* The threads with a RegionContext: the one that runs the mutator's
\* behaviour and a scheduler thread that runs GC tasks.
MainThread == "main"

WorkerThread == "worker"

CbThreads == {MainThread, WorkerThread}

\* gc_callback == nullptr.
NoCallback == "nullptr"

\* The std::function object a benchmark run points the callback at.
Callbacks == {"callback"}

\* A callback pointer kept in one place for the whole process.
get_gc_callback_Global(cbs, th) == cbs[MainThread]

\* RegionContext::get_gc_callback on thread th: the thread_local context's
\* pointer.
get_gc_callback(cbs, th) == cbs[th]

\* RegionContext::set_gc_callback on thread th.
set_gc_callback(cbs, th, c) == [cbs EXCEPT ![th] = c]

NoFields == [i \in Fields |-> Null]

\* The elements of a sequence.
Range(q) == {q[i] : i \in DOMAIN q}

\* The region's objects as one value: what the collectors work on.  mark and
\* jump are the collectors' scratch state, empty between calls.
Heap == [alloc |-> alloc, fld |-> fld, rc |-> rc, lins |-> lins,
         colour |-> [x \in Cells |-> "green"], jump |-> <<>>, mark |-> {}]

\* descriptor trace(): the non-null fields of x, in field order.
RECURSIVE OutFrom(_, _, _)
OutFrom(h, x, i) ==
  IF i > NumFields THEN <<>>
  ELSE (IF h.fld[x][i] = Null THEN <<>> ELSE <<h.fld[x][i]>>) \o OutFrom(h, x, i + 1)

Out(h, x) == OutFrom(h, x, 1)

\* ------------------------------------------------------------ RegionTrace
\* RegionTrace::alloc / RegionArena::alloc: append to the region's objects.
ListAlloc(h, x) == [h EXCEPT !.alloc = @ \cup {x}]

\* Mark phase: pop, mark, trace() pushes the referenced objects not yet marked.
RECURSIVE MarkLoop(_, _)
MarkLoop(h, stack) ==
  IF stack = <<>> THEN h
  ELSE LET x == Head(stack) IN
       IF x \in h.mark THEN MarkLoop(h, Tail(stack))
       ELSE MarkLoop([h EXCEPT !.mark = @ \cup {x}], Out(h, x) \o Tail(stack))

\* A sweep that frees the unmarked objects and leaves the marks set.
Sweep_MarksKept(h) ==
  [h EXCEPT !.alloc = @ \cap h.mark,
            !.fld = [x \in Cells |-> IF x \in h.alloc \ h.mark THEN NoFields ELSE @[x]]]

\* Sweep phase: unmarked objects are unlinked and freed, marks are cleared.
Sweep(h) ==
  [h EXCEPT !.alloc = @ \cap h.mark,
            !.fld = [x \in Cells |-> IF x \in h.alloc \ h.mark THEN NoFields ELSE @[x]],
            !.mark = {}]

\* RegionTrace::gc(entry): mark from the entry point, then sweep.
TraceGc(h) == Sweep(MarkLoop(h, <<Entry>>))

\* --------------------------------------------------------------- RegionRc
\* RegionRc::alloc: a new object starts with count 1.
RcAlloc(h, x) == [h EXCEPT !.alloc = @ \cup {x}, !.rc[x] = 1]

\* RegionRc::incref.
RcIncref(h, x) == [h EXCEPT !.rc[x] = @ + 1]

\* Add x to the suspicious set unless it is tracked already.
Suspect(l, x) == l \cup {x}

\* A deallocation that leaves the object on the suspicious set.
LinsWithout_Kept(l, x) == l

\* Remove a deallocated object from the suspicious set.
LinsWithout(l, x) == l \ {x}

\* Deallocate x: off the object list, off the suspicious set, memory freed.
RcDealloc(h, x) ==
  [h EXCEPT !.alloc = @ \ {x}, !.fld[x] = NoFields, !.rc[x] = 0,
            !.colour[x] = "green", !.lins = LinsWithout(@, x)]

\* RegionRc::decref: decrement; at zero deallocate and decrement the targets
\* of the out-edges (worklist, not recursion); above zero, mark suspicious.
RECURSIVE DecLoop(_, _)
DecLoop(h, work) ==
  IF work = <<>> THEN h
  ELSE LET x == Head(work)
           n == h.rc[x] - 1
       IN IF n = 0
            THEN DecLoop(RcDealloc(h, x), Out(h, x) \o Tail(work))
            ELSE DecLoop([h EXCEPT !.rc[x] = n, !.lins = Suspect(@, x)], Tail(work))

RcDecref(h, x) == DecLoop(h, <<x>>)

\* mark_red: an object whose count stays above zero after a trial decrement
\* may be referenced from outside; remember it for the scan.
JumpPush(jump, x, n) == IF n > 0 /\ x \notin Range(jump) THEN Append(jump, x) ELSE jump

\* Mark-red: follow the out-edges depth first, decrement each target's count
\* and colour it red; red objects are not traced again.
RECURSIVE MarkRedLoop(_, _)
MarkRedLoop(h, dfs) ==
  IF dfs = <<>> THEN h
  ELSE LET x == Head(dfs)
           n == h.rc[x] - 1
           h1 == [h EXCEPT !.rc[x] = n, !.colour[x] = "red",
                           !.jump = JumpPush(@, x, n)]
       IN IF h.colour[x] = "red"
            THEN MarkRedLoop(h1, Tail(dfs))
            ELSE MarkRedLoop(h1, Out(h, x) \o Tail(dfs))

mark_red(h, root) ==
  IF h.colour[root] = "red" THEN h
  ELSE MarkRedLoop([h EXCEPT !.colour[root] = "red"], Out(h, root))

\* Add one to the count of every element of a sequence of edge targets.
RECURSIVE IncAll(_, _)
IncAll(counts, targets) ==
  IF targets = <<>> THEN counts
  ELSE IncAll([counts EXCEPT ![Head(targets)] = @ + 1], Tail(targets))

\* Restore: a live red object turns green and gives its targets their
\* counts back; red targets are restored in turn.
RECURSIVE RestoreLoop(_, _)
RestoreLoop(h, stack) ==
  IF stack = <<>> THEN h
  ELSE LET x == Head(stack) IN
       IF h.colour[x] # "red" THEN RestoreLoop(h, Tail(stack))
       ELSE RestoreLoop([h EXCEPT !.colour[x] = "green", !.rc = IncAll(@, Out(h, x))],
                        Out(h, x) \o Tail(stack))

\* Scan: the root, then every object on the jump stack, is live if it is
\* red and its count is above zero.
RECURSIVE ScanJump(_, _)
ScanJump(h, js) ==
  IF js = <<>> THEN h
  ELSE LET x == Head(js) IN
       IF h.colour[x] = "red" /\ h.rc[x] > 0
         THEN ScanJump(RestoreLoop(h, <<x>>), Tail(js))
         ELSE ScanJump(h, Tail(js))

\* A scan that looks at the root only and never at the jump stack.
scan_RootOnly(h, root) == ScanJump(h, <<root>>)

scan(h, root) == ScanJump(h, <<root>> \o h.jump)

\* Collect: what is still red is garbage.
RedObjects(h) == {x \in Cells : h.colour[x] = "red"}

CollectRed(h) ==
  LET red == RedObjects(h) IN
  [h EXCEPT !.alloc = @ \ red,
            !.fld = [x \in Cells |-> IF x \in red THEN NoFields ELSE @[x]],
            !.rc = [x \in Cells |-> IF x \in red THEN 0 ELSE @[x]],
            !.colour = [x \in Cells |-> "green"],
            !.lins = @ \ red,
            !.jump = <<>>]

\* The suspicious object gc_cycles takes next.
NextRoot(l) == CHOOSE x \in l : \A y \in l : y <= x

\* RegionRc::gc_cycles: take the suspicious objects one by one; mark-red,
\* scan, collect.
RECURSIVE gc_cycles(_)
gc_cycles(h) ==
  IF h.lins = {} THEN h
  ELSE LET root == NextRoot(h.lins)
           h0 == [h EXCEPT !.lins = @ \ {root}]
       IN gc_cycles(CollectRed(scan(mark_red(h0, root), root)))

\* ------------------------------------------------- region API on objects
\* create_object whose Rc case allocates the way the Trace case does: the
\* object gets no count.
create_object_RcAsTrace(h, type, x) ==
  CASE type = "Trace" -> ListAlloc(h, x)
    [] type = "Arena" -> ListAlloc(h, x)
    [] type = "Rc" -> ListAlloc(h, x)

\* create_object: case analysis on the type of the current region.
create_object(h, type, x) ==
  CASE type = "Trace" -> ListAlloc(h, x)
    [] type = "Arena" -> ListAlloc(h, x)
    [] type = "Rc" -> RcAlloc(h, x)

\* region_collect whose Rc case collects nothing.
region_collect_NoRc(h, type) ==
  CASE type = "Trace" -> TraceGc(h)
    [] type = "Arena" -> h
    [] type = "Rc" -> h

\* region_collect whose Trace case collects nothing.
region_collect_NoTrace(h, type) ==
  CASE type = "Trace" -> h
    [] type = "Arena" -> h
    [] type = "Rc" -> gc_cycles(h)

\* region_collect whose Rc case handles one suspicious object per call and
\* leaves the rest of the suspicious set for later.
region_collect_RcOneRoot(h, type) ==
  CASE type = "Trace" -> TraceGc(h)
    [] type = "Arena" -> h
    [] type = "Rc" ->
         IF h.lins = {} THEN h
         ELSE LET root == NextRoot(h.lins)
                  h0 == [h EXCEPT !.lins = @ \ {root}]
              IN CollectRed(scan(mark_red(h0, root), root))

\* region_collect whose Arena case runs the tracing collector.
region_collect_ArenaAsTrace(h, type) ==
  CASE type = "Trace" -> TraceGc(h)
    [] type = "Arena" -> TraceGc(h)
    [] type = "Rc" -> gc_cycles(h)

\* region_collect: Trace runs RegionTrace::gc, Arena has nothing to
\* collect, Rc runs RegionRc::gc_cycles.
region_collect(h, type) ==
  CASE type = "Trace" -> TraceGc(h)
    [] type = "Arena" -> h
    [] type = "Rc" -> gc_cycles(h)

\* api::incref that does not reach RegionRc::incref.
incref_Dropped(h, x) == h

\* api::incref.
incref(h, x) == RcIncref(h, x)

\* RegionRc::decref whose cascade only decrements: the targets of a freed
\* object are not put on the suspicious set.
RECURSIVE DecLoop_Quiet(_, _, _)
DecLoop_Quiet(h, work, direct) ==
  IF work = <<>> THEN h
  ELSE LET x == Head(work)
           n == h.rc[x] - 1
       IN IF n = 0
            THEN DecLoop_Quiet(RcDealloc(h, x), Out(h, x) \o Tail(work), FALSE)
            ELSE DecLoop_Quiet([h EXCEPT !.rc[x] = n,
                                         !.lins = IF direct THEN Suspect(@, x) ELSE @],
                               Tail(work), FALSE)

\* api::decref on such a RegionRc.
decref_CascadeNotSuspected(h, x) == DecLoop_Quiet(h, <<x>>, TRUE)

\* api::decref that does not reach RegionRc::decref.
decref_Dropped(h, x) == h

\* api::decref.
decref(h, x) == RcDecref(h, x)

\* debug_size(): the number of objects of the current region.
debug_size == Cardinality(alloc)

\* Counted references the mutator's locals hold in total.
RECURSIVE SumHeld(_)
SumHeld(S) == IF S = {} THEN 0 ELSE LET x == CHOOSE y \in S : TRUE IN held[x] + SumHeld(S \ {x})

HeldTotal == SumHeld(Objs)

\* RegionContext::get_region(): a mutator has the region open for work.
InRegion == \E m \in Mutators : mpc[m] = "work" /\ mstack[m] # <<>> /\ Head(mstack[m]) = R

\* The heap variables take the values of a heap value.
InstallHeap(h, op) ==
  /\ alloc' = h.alloc
  /\ fld' = h.fld
  /\ rc' = h.rc
  /\ lins' = h.lins
  /\ lastOp' = op
  /\ lastFreed' = alloc \ h.alloc
  /\ lastSusp' = IF op \in {"collect", "decref"} THEN lins ELSE {}

\* A call other than region_collect and decref: it reports nothing.
Install(h, op) ==
  /\ InstallHeap(h, op)
  /\ lastCalls' = <<>>
  /\ lastLogs' = 0

\* RegionTrace / RegionArena / RegionRc ::get_current_memory_used, in words:
\* every object of the tests is a header and its pointer fields.
get_current_memory_used(h) == Cardinality(h.alloc) * (1 + NumFields)

\* What region_collect and decref hand to the callback of the calling
\* thread: the region's type and the figures captured before the call.
Measurement(th) ==
  [callback |-> get_gc_callback(gc_callback, th), thread |-> th, type |-> rtype,
   mem |-> get_current_memory_used(Heap), obj |-> debug_size]

\* The end of region_collect and of decref on thread th: if (callback != nullptr)
\* (*callback)(...) else Logging::cout() << ...
Report(th) ==
  IF get_gc_callback(gc_callback, th) # NoCallback
    THEN lastCalls' = <<Measurement(th)>> /\ lastLogs' = 0
    ELSE lastCalls' = <<>> /\ lastLogs' = 1

\* new C: create_object in the open region; the local holds the reference.
HNew ==
  /\ InRegion
  /\ nextId < MaxObjs
  /\ rtype = "Rc" => HeldTotal < MaxHeld
  /\ LET x == nextId + 1 IN
       /\ Install(create_object(Heap, rtype, x), "other")
       /\ held' = IF rtype = "Rc" THEN [held EXCEPT ![x] = 1] ELSE held
  /\ nextId' = nextId + 1
  /\ UNCHANGED rtype
  /\ UNCHANGED <<cvars, nvars>>

\* a->f = x (or nullptr) in a Trace or Arena region: a plain pointer store.
HSet(a, i, x) ==
  /\ InRegion
  /\ rtype # "Rc"
  /\ a \in alloc
  /\ x \in (alloc \ {Entry}) \cup {Null}
  /\ fld[a][i] # x
  /\ Install([Heap EXCEPT !.fld[a][i] = x], "other")
  /\ UNCHANGED <<rtype, held, nextId>>
  /\ UNCHANGED <<cvars, nvars>>

\* incref(x): the mutator takes one more counted reference to x.
HIncref(x) ==
  /\ InRegion
  /\ rtype = "Rc"
  /\ x \in alloc \ {Entry}
  /\ HeldTotal < MaxHeld
  /\ Install(incref(Heap, x), "other")
  /\ held' = [held EXCEPT ![x] = @ + 1]
  /\ UNCHANGED <<rtype, nextId>>
  /\ UNCHANGED <<cvars, nvars>>

\* decref(x): the mutator gives up a counted reference it holds.
HDecref(x) ==
  /\ InRegion
  /\ rtype = "Rc"
  /\ x \in alloc \ {Entry}
  /\ held[x] > 0
  /\ InstallHeap(decref(Heap, x), "decref")
  /\ Report(MainThread)
  /\ held' = [held EXCEPT ![x] = @ - 1]
  /\ UNCHANGED <<rtype, nextId>>
  /\ UNCHANGED <<cvars, nvars>>

\* a->f = x in an Rc region: the field takes over a reference the mutator holds.
HStore(a, i, x) ==
  /\ InRegion
  /\ rtype = "Rc"
  /\ a \in alloc
  /\ fld[a][i] = Null
  /\ x \in alloc \ {Entry}
  /\ held[x] > 0
  /\ Install([Heap EXCEPT !.fld[a][i] = x], "other")
  /\ held' = [held EXCEPT ![x] = @ - 1]
  /\ UNCHANGED <<rtype, nextId>>
  /\ UNCHANGED <<cvars, nvars>>

\* a->f = nullptr in an Rc region: the mutator now holds the reference the
\* field held (to decref it).
HTake(a, i) ==
  /\ InRegion
  /\ rtype = "Rc"
  /\ a \in alloc
  /\ fld[a][i] # Null
  /\ HeldTotal < MaxHeld
  /\ Install([Heap EXCEPT !.fld[a][i] = Null], "other")
  /\ held' = [held EXCEPT ![fld[a][i]] = @ + 1]
  /\ UNCHANGED <<rtype, nextId>>
  /\ UNCHANGED <<cvars, nvars>>

\* region_collect() on the open region.
HCollect ==
  /\ InRegion
  /\ InstallHeap(region_collect(Heap, rtype), "collect")
  /\ Report(MainThread)
  /\ UNCHANGED <<rtype, held, nextId>>
  /\ UNCHANGED <<cvars, nvars>>

\* A fresh region of the given type: the entry point alone.
FreshRegion(type) ==
  /\ rtype = type
  /\ alloc = {Entry}
  /\ fld = [x \in Cells |-> NoFields]
  /\ rc = [x \in Cells |-> IF x = Entry THEN 1 ELSE 0]
  /\ lins = {}
  /\ held = [x \in Objs |-> 0]
  /\ nextId = 0
  /\ lastOp = "other"
  /\ lastFreed = {}
  /\ lastSusp = {}
  /\ lastCalls = <<>>
  /\ lastLogs = 0

\* ========================================================= nested regions
\* The regions one thread opens inside one another (the cache's head
\* region and an entry's own region in test_lru_cache).
Regions == {"A", "B"}

\* The iso object that is the entry point of region r.
EntryOf(r) == <<"entry", r>>

\* RegionFrame: entry_point, region (prev is the rest of the stack).
Frame(r) == [entry_point |-> EntryOf(r), region |-> r]

\* RegionContext::get_region() that returns the first frame pushed.
get_region_Bottom(stk) == stk[Len(stk)].region

\* RegionContext::get_region(): the region of the top frame.
get_region(stk) == Head(stk).region

\* RegionContext::get_entry_point(): the entry point of the top frame.
get_entry_point(stk) == Head(stk).entry_point

\* No handle.
NoRef == [region |-> "none", valid |-> FALSE]

\* The calls that act on the current region without allocating.
ApiCalls == {"incref", "decref", "region_collect", "debug_size"}

\* No region open, each region holds its entry point alone.
NestFields ==
  /\ frames = <<>>
  /\ rstate = [r \in Regions |-> "Closed"]
  /\ rsize = [r \in Regions |-> 1]
  /\ rowners = [r \in Regions |-> 1]
  /\ acted = <<"none", "none">>
  /\ xref = NoRef
  /\ xtarget = "none"
  /\ xalive = [r \in Regions |-> TRUE]
  /\ xres = "none"
  /\ xassert = FALSE
  /\ merr = "none"
  /\ gc_callback = [th \in CbThreads |-> NoCallback]

\* The nested regions are Trace regions, as in the LRU cache test.
NestInit == NestFields /\ rtypes = [r \in Regions |-> "Trace"]

\* ============================================================ concurrency
ConcInit ==
  /\ state = "Closed"
  /\ owners = 1
  /\ isAlive = TRUE
  /\ mpc = [m \in Mutators |-> "idle"]
  /\ mstack = [m \in Mutators |-> <<>>]
  /\ opens = 0
  /\ tpc = [t \in Tasks |-> "none"]
  /\ tstack = [t \in Tasks |-> <<>>]
  /\ rpc = "idle"
  /\ releasedBy = <<>>
  /\ badAccess = FALSE
  /\ lateDeref = FALSE
  /\ assertFailed = FALSE
  /\ observed = [t \in Tasks |-> "none"]
  /\ seen = [t \in Tasks |-> "none"]
  /\ found = [m \in Mutators |-> "none"]
  /\ raced = FALSE

\* The concurrency model follows one region and leaves its objects alone.
Init == ConcInit /\ FreshRegion("Trace") /\ NestInit

\* ------------------------------------------------- open_region(r, forWork)
\* The state a successful Closed -> Open compare-exchange installs.
WorkOpenTarget == "Open"

\* An exchange that does not compare: whatever the state is, it is expected.
WorkOpenExpected_Any == state

\* The state the mutator's compare-exchange expects.
WorkOpenExpected == "Closed"

\* First compare_exchange_strong of open_region(forWork = true).
MOpenStrong(m) ==
  /\ mpc[m] = "idle"
  /\ rpc = "idle"
  /\ opens < MaxOpens
  /\ opens' = opens + 1
  /\ Touch
  /\ IF state = WorkOpenExpected
       THEN /\ state' = WorkOpenTarget
            /\ mstack' = [mstack EXCEPT ![m] = push(@, R)]
            /\ mpc' = [mpc EXCEPT ![m] = "work"]
       ELSE /\ mpc' = [mpc EXCEPT ![m] = "spin"]
            /\ UNCHANGED <<state, mstack>>
  /\ found' = [found EXCEPT ![m] = state]
  /\ UNCHANGED <<owners, isAlive, tpc, tstack, rpc, releasedBy, assertFailed>>
  /\ UNCHANGED tlocals
  /\ UNCHANGED raced
  /\ UNCHANGED <<hvars, nvars>>

\* A spin loop that does not reset `expected`: the exchange then expects
\* whatever the last failure found.
SpinExpected_NotReset == state

\* The spin loop sets expected = RegionBase::Closed before every retry.
SpinExpected == "Closed"

\* One successful iteration of the compare_exchange_weak spin loop.
MOpenSpin(m) ==
  /\ mpc[m] = "spin"
  /\ state = SpinExpected
  /\ state' = WorkOpenTarget
  /\ mstack' = [mstack EXCEPT ![m] = push(@, R)]
  /\ mpc' = [mpc EXCEPT ![m] = "work"]
  /\ Touch
  /\ UNCHANGED <<owners, isAlive, opens, tpc, tstack, rpc, releasedBy, assertFailed>>
  /\ UNCHANGED <<tlocals, found>>
  /\ UNCHANGED raced
  /\ UNCHANGED <<hvars, nvars>>

\* One failed iteration: the region is Open or Collecting (or the weak
\* exchange failed spuriously); pause, reset expected, try again.
MSpinWait(m) ==
  /\ mpc[m] = "spin"
  /\ Touch
  /\ UNCHANGED <<state, owners, isAlive, mpc, mstack, opens, tpc, tstack, rpc,
                 releasedBy, assertFailed>>
  /\ UNCHANGED <<tlocals, found>>
  /\ UNCHANGED raced
  /\ UNCHANGED <<hvars, nvars>>

\* ------------------------------------------------- close_region(forWork)
\* The compare-exchange Open -> Closed of close_region(true).
MCloseCas(m) ==
  /\ mpc[m] = "work"
  /\ Touch
  /\ assertFailed' = (assertFailed \/ state # "Open")
  /\ state' = IF state = "Open" THEN "Closed" ELSE state
  /\ mpc' = [mpc EXCEPT ![m] = "sched_check"]
  /\ found' = [found EXCEPT ![m] = "none"]
  /\ UNCHANGED <<owners, isAlive, mstack, opens, tpc, tstack, rpc, releasedBy>>
  /\ UNCHANGED tlocals
  /\ UNCHANGED raced
  /\ UNCHANGED <<hvars, nvars>>

\* close_region: the switch on the region type after the compare-exchange:
\* only the Rc case calls into the region (RegionRc::close).
CloseTouches(type) ==
  CASE type = "Trace" -> FALSE
    [] type = "Arena" -> FALSE
    [] type = "Rc" -> TRUE

\* close_region after its compare-exchange: the type-specific close, then
\* schedule_gc: if (!reg->isAlive.load()) return;  then RegionContext::pop().
MSchedCheck(m) ==
  /\ mpc[m] = "sched_check"
  /\ Touch
  /\ IF isAlive
       THEN /\ mpc' = [mpc EXCEPT ![m] = "sched_inc"]
            /\ UNCHANGED mstack
       ELSE /\ mpc' = [mpc EXCEPT ![m] = "idle"]
            /\ mstack' = [mstack EXCEPT ![m] = pop(@)]
  /\ UNCHANGED <<state, owners, isAlive, opens, tpc, tstack, rpc, releasedBy,
                 assertFailed>>
  /\ UNCHANGED <<tlocals, found>>
  /\ raced' = (raced \/ (CloseTouches(rtype) /\ state # "Closed"))
  /\ UNCHANGED <<hvars, nvars>>

\* schedule_gc: entry->get_region()->task_inc().
MSchedInc(m) ==
  /\ mpc[m] = "sched_inc"
  /\ Touch
  /\ owners' = OwnersAfterInc
  /\ mpc' = [mpc EXCEPT ![m] = "sched_post"]
  /\ UNCHANGED <<state, isAlive, mstack, opens, tpc, tstack, rpc, releasedBy,
                 assertFailed>>
  /\ UNCHANGED <<tlocals, found>>
  /\ UNCHANGED raced
  /\ UNCHANGED <<hvars, nvars>>

\* The next GC task to be made.
NextTask == CHOOSE t \in Tasks : tpc[t] = "none" /\ \A u \in Tasks : u < t => tpc[u] # "none"

\* schedule_gc: Scheduler::schedule(gc_work); then RegionContext::pop().
MSchedPost(m) ==
  /\ mpc[m] = "sched_post"
  /\ \E t \in Tasks : tpc[t] = "none"
  /\ tpc' = [tpc EXCEPT ![NextTask] = "queued"]
  /\ mstack' = [mstack EXCEPT ![m] = pop(@)]
  /\ mpc' = [mpc EXCEPT ![m] = "idle"]
  /\ NoTouch
  /\ UNCHANGED <<state, owners, isAlive, opens, tstack, rpc, releasedBy, assertFailed>>
  /\ UNCHANGED <<tlocals, found>>
  /\ UNCHANGED raced
  /\ UNCHANGED <<hvars, nvars>>

\* ------------------------------------------------------ gc_task (closure)
\* A gc_task that opens the region whatever isAlive says.
AfterAliveLoad_NoCheck(alive) == "gc_open"

\* gc_task: if (reg->isAlive.load(...)) { UsingRegion ... } else fall
\* through to task_dec.
AfterAliveLoad(alive) == IF alive THEN "gc_open" ELSE "gc_dec"

\* gc_task: RegionBase* reg = entry->get_region(); reg->isAlive.load(...).
TStart(t) ==
  /\ tpc[t] = "queued"
  /\ Touch
  /\ observed' = [observed EXCEPT ![t] = IF isAlive THEN "alive" ELSE "dead"]
  /\ tpc' = [tpc EXCEPT ![t] = AfterAliveLoad(isAlive)]
  /\ UNCHANGED <<state, owners, isAlive, mpc, mstack, opens, tstack, rpc, releasedBy,
                 assertFailed, seen, found>>
  /\ UNCHANGED raced
  /\ UNCHANGED <<hvars, nvars>>

\* The open for GC with the check for Open dropped: only Collecting fails.
GcOpenSucceeds_NoOpenCheck == state # "Collecting"

\* Whether open_region(entry, false) goes on to push a frame: the
\* compare_exchange_strong(Closed, Collecting) left neither Collecting nor
\* Open in its expected value.
GcOpenSucceeds == state = "Closed"

\* A GC task that tries its open again after a failure.
AfterFailedOpen_Retry == "gc_open"

\* Where a GC task whose open failed goes: it returns from the closure.
AfterFailedOpen == "aborted"

\* UsingRegion rr(entry, false): open_region(entry, forWork = false).
TOpen(t) ==
  /\ tpc[t] = "gc_open"
  /\ Touch
  /\ IF GcOpenSucceeds
       THEN /\ state' = (IF state = "Closed" THEN "Collecting" ELSE state)
            /\ tstack' = [tstack EXCEPT ![t] = push(@, R)]
            /\ tpc' = [tpc EXCEPT ![t] = "gc_collect"]
       ELSE /\ tpc' = [tpc EXCEPT ![t] = AfterFailedOpen]
            /\ UNCHANGED <<state, tstack>>
  /\ seen' = [seen EXCEPT ![t] = state]
  /\ UNCHANGED <<owners, isAlive, mpc, mstack, opens, rpc, releasedBy, assertFailed,
                 observed, found>>
  /\ UNCHANGED raced
  /\ UNCHANGED <<hvars, nvars>>

\* region_collect() run by the GC task on the region of its top frame.
TCollect(t) ==
  /\ tpc[t] = "gc_collect"
  /\ Touch
  /\ tpc' = [tpc EXCEPT ![t] = "gc_close"]
  /\ UNCHANGED <<state, owners, isAlive, mpc, mstack, opens, tstack, rpc, releasedBy,
                 assertFailed>>
  /\ UNCHANGED <<tlocals, found>>
  /\ UNCHANGED raced
  /\ UNCHANGED <<hvars, nvars>>

\* A close_region that schedules a collection whatever forWork says.
CloseSchedulesGc_Always(forWork) == TRUE

\* close_region: if (forWork) schedule_gc(entry).
CloseSchedulesGc(forWork) == forWork

\* ~UsingRegion: close_region(false), Collecting -> Closed, pop.  Were the
\* close to schedule a collection, a task would be queued again.
TClose(t) ==
  /\ tpc[t] = "gc_close"
  /\ Touch
  /\ assertFailed' = (assertFailed \/ state # "Collecting")
  /\ state' = IF state = "Collecting" THEN "Closed" ELSE state
  /\ tstack' = [tstack EXCEPT ![t] = pop(@)]
  /\ tpc' = [tpc EXCEPT ![t] = IF CloseSchedulesGc(FALSE) THEN "queued" ELSE "gc_dec"]
  /\ UNCHANGED <<owners, isAlive, mpc, mstack, opens, rpc, releasedBy>>
  /\ UNCHANGED <<tlocals, found>>
  /\ UNCHANGED raced
  /\ UNCHANGED <<hvars, nvars>>

\* if (reg->task_dec()) region_physical_release(entry);
TDec(t) ==
  /\ tpc[t] = "gc_dec"
  /\ Touch
  /\ owners' = OwnersAfterDec
  /\ tpc' = [tpc EXCEPT ![t] = IF task_dec_result THEN "gc_phys" ELSE "done"]
  /\ UNCHANGED <<state, isAlive, mpc, mstack, opens, tstack, rpc, releasedBy,
                 assertFailed>>
  /\ UNCHANGED <<tlocals, found>>
  /\ UNCHANGED raced
  /\ UNCHANGED <<hvars, nvars>>

\* region_physical_release(entry) run by the GC task.
TPhys(t) ==
  /\ tpc[t] = "gc_phys"
  /\ releasedBy' = Append(releasedBy, "task")
  /\ badAccess' = (badAccess \/ freed)
  /\ lateDeref' = lateDeref
  /\ tpc' = [tpc EXCEPT ![t] = "done"]
  /\ UNCHANGED <<state, owners, isAlive, mpc, mstack, opens, tstack, rpc,
                 assertFailed>>
  /\ UNCHANGED <<tlocals, found>>
  /\ UNCHANGED raced
  /\ UNCHANGED <<hvars, nvars>>

\* --------------------------------------------------------- region_release
\* The owner (the cown's destructor) releases after every behaviour on the
\* region has returned from close_region.
RStore ==
  /\ rpc = "idle"
  /\ \A m \in Mutators : mpc[m] = "idle"
  /\ isAlive' = FALSE
  /\ rpc' = "dec"
  /\ badAccess' = (badAccess \/ freed)
  /\ lateDeref' = lateDeref
  /\ UNCHANGED <<state, owners, mpc, mstack, opens, tpc, tstack, releasedBy,
                 assertFailed>>
  /\ UNCHANGED <<tlocals, found>>
  /\ UNCHANGED raced
  /\ UNCHANGED <<hvars, nvars>>

\* if (reg->task_dec()) region_physical_release(r);
RDec ==
  /\ rpc = "dec"
  /\ owners' = OwnersAfterDec
  /\ rpc' = IF task_dec_result THEN "phys" ELSE "done"
  /\ badAccess' = (badAccess \/ freed)
  /\ lateDeref' = lateDeref
  /\ UNCHANGED <<state, isAlive, mpc, mstack, opens, tpc, tstack, releasedBy,
                 assertFailed>>
  /\ UNCHANGED <<tlocals, found>>
  /\ UNCHANGED raced
  /\ UNCHANGED <<hvars, nvars>>

\* region_physical_release(r) run by region_release itself.
RPhys ==
  /\ rpc = "phys"
  /\ releasedBy' = Append(releasedBy, "owner")
  /\ rpc' = "done"
  /\ badAccess' = (badAccess \/ freed)
  /\ lateDeref' = lateDeref
  /\ UNCHANGED <<state, owners, isAlive, mpc, mstack, opens, tpc, tstack,
                 assertFailed>>
  /\ UNCHANGED <<tlocals, found>>
  /\ UNCHANGED raced
  /\ UNCHANGED <<hvars, nvars>>

Next ==
  \/ \E m \in Mutators : MOpenStrong(m)
  \/ \E m \in Mutators : MOpenSpin(m)
  \/ \E m \in Mutators : MSpinWait(m)
  \/ \E m \in Mutators : MCloseCas(m)
  \/ \E m \in Mutators : MSchedCheck(m)
  \/ \E m \in Mutators : MSchedInc(m)
  \/ \E m \in Mutators : MSchedPost(m)
  \/ \E t \in Tasks : TStart(t)
  \/ \E t \in Tasks : TOpen(t)
  \/ \E t \in Tasks : TCollect(t)
  \/ \E t \in Tasks : TClose(t)
  \/ \E t \in Tasks : TDec(t)
  \/ \E t \in Tasks : TPhys(t)
  \/ RStore
  \/ RDec
  \/ RPhys

Spec == Init /\ [][Next]_vars

\* The steps a mutator thread takes on its own once it is inside
\* open_region's spin loop, its work or close_region.
MutatorRuns(m) ==
  \/ MOpenSpin(m)
  \/ MCloseCas(m)
  \/ MSchedCheck(m)
  \/ MSchedInc(m)
  \/ MSchedPost(m)

\* The steps of a scheduled GC task: the scheduler runs every queued task
\* and the closure is straight-line code.
TaskRuns(t) ==
  \/ TStart(t)
  \/ TOpen(t)
  \/ TCollect(t)
  \/ TClose(t)
  \/ TDec(t)
  \/ TPhys(t)

\* Threads keep running: a thread that can take its next step takes it.
\* The same threads on an Rc region.
RcInit == ConcInit /\ FreshRegion("Rc") /\ NestInit

SpecRc == RcInit /\ [][Next]_vars

FairSpec ==
  /\ Spec
  /\ \A m \in Mutators : WF_vars(MutatorRuns(m))
  /\ \A t \in Tasks : WF_vars(TaskRuns(t))

\* The mutator of one open region: create_fresh_region of any type, then
\* any sequence of API calls on its objects.
\* The state inside `UsingRegion rr(o)` on a fresh region: mutator 1 has
\* opened it for work.
OpenedInit ==
  /\ state = "Open"
  /\ owners = 1
  /\ isAlive = TRUE
  /\ mpc = [m \in Mutators |-> IF m = 1 THEN "work" ELSE "idle"]
  /\ mstack = [m \in Mutators |-> IF m = 1 THEN push(<<>>, R) ELSE <<>>]
  /\ opens = 1
  /\ tpc = [t \in Tasks |-> "none"]
  /\ tstack = [t \in Tasks |-> <<>>]
  /\ rpc = "idle"
  /\ releasedBy = <<>>
  /\ badAccess = FALSE
  /\ lateDeref = FALSE
  /\ assertFailed = FALSE
  /\ observed = [t \in Tasks |-> "none"]
  /\ seen = [t \in Tasks |-> "none"]
  /\ found = [m \in Mutators |-> "none"]
  /\ raced = FALSE

HeapInit == OpenedInit /\ NestInit /\ \E type \in RegionTypes : FreshRegion(type)

HeapNext ==
  \/ HNew
  \/ \E a \in Cells, i \in Fields, x \in Cells \cup {Null} : HSet(a, i, x)
  \/ \E x \in Objs : HIncref(x)
  \/ \E x \in Objs : HDecref(x)
  \/ \E a \in Cells, i \in Fields, x \in Objs : HStore(a, i, x)
  \/ \E a \in Cells, i \in Fields : HTake(a, i)
  \/ HCollect

SpecHeap == HeapInit /\ [][HeapNext]_vars

\* ------------------------------------------- one thread nesting regions
\* UsingRegion ur(r): open_region(r, true) by this thread.  A region this
\* thread already has open is never Closed again before the thread closes
\* it, so the call would spin for ever; only a Closed region is opened.
NOpen(r) ==
  /\ rstate[r] = WorkOpenExpected
  /\ rowners[r] <= MaxOpens
  /\ rstate' = [rstate EXCEPT ![r] = WorkOpenTarget]
  /\ frames' = push(frames, Frame(r))
  /\ acted' = <<"open_region", r>>
  /\ UNCHANGED <<rsize, rowners>>
  /\ UNCHANGED <<xvars, rtypes, merr, gc_callback>>
  /\ UNCHANGED <<cvars, hvars>>

\* ~UsingRegion: close_region(true) on the current region: Open -> Closed,
\* schedule_gc (task_inc), RegionContext::pop().
NClose ==
  /\ frames # <<>>
  /\ LET r == get_region(frames) IN
       /\ rstate' = [rstate EXCEPT ![r] = IF @ = "Open" THEN "Closed" ELSE @]
       /\ rowners' = [rowners EXCEPT ![r] = @ + 1]
       /\ acted' = <<"close_region", r>>
  /\ frames' = pop(frames)
  /\ UNCHANGED rsize
  /\ UNCHANGED <<xvars, rtypes, merr, gc_callback>>
  /\ UNCHANGED <<cvars, hvars>>

\* new C: create_object allocates in the region of the top frame.
NCreate ==
  /\ frames # <<>>
  /\ LET r == get_region(frames) IN
       /\ rsize[r] <= MaxObjs
       /\ rsize' = [rsize EXCEPT ![r] = @ + 1]
       /\ acted' = <<"create_object", r>>
  /\ UNCHANGED <<frames, rstate, rowners>>
  /\ UNCHANGED <<xvars, rtypes, merr, gc_callback>>
  /\ UNCHANGED <<cvars, hvars>>

\* incref, decref, region_collect, debug_size: each takes its region from
\* RegionContext::get_region().  (What they do to the objects is the
\* subject of the object model above; here every object stays reachable.)
NCall(op) ==
  /\ frames # <<>>
  /\ acted' = <<op, get_region(frames)>>
  /\ UNCHANGED <<frames, rstate, rsize, rowners>>
  /\ UNCHANGED <<xvars, rtypes, merr, gc_callback>>
  /\ UNCHANGED <<cvars, hvars>>

NestNext ==
  \/ \E r \in Regions : NOpen(r)
  \/ NClose
  \/ NCreate
  \/ \E op \in ApiCalls : NCall(op)

SpecNest == Init /\ [][NestNext]_vars

\* --------------------------------------------------- external references
\* ExternalRef::create(region, target): a handle holding (region, target).
ExternalRef_create(r) == [region |-> r, valid |-> TRUE]

\* ExternalRef::is_in(region): the handle was created by `region` and its
\* target has not been freed.
is_in(h, r) == h.region = r /\ h.valid

\* A validity check that does not look at the calling thread's region.
is_external_reference_valid_AnyRegion(h, stk) == h.valid

\* is_external_reference_valid(e): e->is_in(RegionContext::get_region()).
is_external_reference_valid(h, stk) == is_in(h, get_region(stk))

\* The handle after its target was freed or its region released: the
\* validity bit is cleared.
Invalidated(h) == [h EXCEPT !.valid = FALSE]

\* UsingRegion ur(r) on a region that has not been released.
XOpen(r) == xalive[r] /\ NOpen(r)

\* create_external_reference(o) for an object o of the current region.
XCreateRef ==
  /\ frames # <<>>
  /\ xref = NoRef
  /\ xref' = ExternalRef_create(get_region(frames))
  /\ xtarget' = "reachable"
  /\ acted' = <<"create_external_reference", get_region(frames)>>
  /\ UNCHANGED <<frames, rstate, rsize, rowners, xalive, xres, xassert, rtypes, merr, gc_callback>>
  /\ UNCHANGED <<cvars, hvars>>

\* The mutator removes the last pointer to the handle's target while the
\* target's region is the current one.
XUnlink ==
  /\ frames # <<>>
  /\ xref.region = get_region(frames)
  /\ xtarget = "reachable"
  /\ xtarget' = "unreachable"
  /\ acted' = <<"unlink", get_region(frames)>>
  /\ UNCHANGED <<frames, rstate, rsize, rowners, xref, xalive, xres, xassert, rtypes, merr, gc_callback>>
  /\ UNCHANGED <<cvars, hvars>>

\* region_collect() on the current region: an unreachable target is freed
\* and its handle invalidated.
XCollect ==
  /\ frames # <<>>
  /\ acted' = <<"region_collect", get_region(frames)>>
  /\ IF xref.region = get_region(frames) /\ xtarget = "unreachable"
       THEN xtarget' = "freed" /\ xref' = Invalidated(xref)
       ELSE UNCHANGED <<xtarget, xref>>
  /\ UNCHANGED <<frames, rstate, rsize, rowners, xalive, xres, xassert, rtypes, merr, gc_callback>>
  /\ UNCHANGED <<cvars, hvars>>

\* region_release(r) on a region the thread does not have open: its objects
\* are freed and the handles into it invalidated.
XRelease(r) ==
  /\ xalive[r]
  /\ rstate[r] = "Closed"
  /\ xalive' = [xalive EXCEPT ![r] = FALSE]
  /\ acted' = <<"region_release", r>>
  /\ IF xref.region = r
       THEN xtarget' = "freed" /\ xref' = Invalidated(xref)
       ELSE UNCHANGED <<xtarget, xref>>
  /\ UNCHANGED <<frames, rstate, rsize, rowners, xres, xassert, rtypes, merr, gc_callback>>
  /\ UNCHANGED <<cvars, hvars>>

\* is_external_reference_valid(e) called with some region open.
XValid ==
  /\ frames # <<>>
  /\ xref # NoRef
  /\ xres' = IF is_external_reference_valid(xref, frames) THEN "true" ELSE "false"
  /\ acted' = <<"is_external_reference_valid", get_region(frames)>>
  /\ UNCHANGED <<frames, rstate, rsize, rowners, xref, xtarget, xalive, xassert, rtypes, merr, gc_callback>>
  /\ UNCHANGED <<cvars, hvars>>

\* use_external_reference(e): assert(is_external_reference_valid(e));
\* return e->get().
XUse ==
  /\ frames # <<>>
  /\ xref # NoRef
  /\ xassert' = (xassert \/ ~is_external_reference_valid(xref, frames))
  /\ acted' = <<"use_external_reference", get_region(frames)>>
  /\ UNCHANGED <<frames, rstate, rsize, rowners, xref, xtarget, xalive, xres, rtypes, merr, gc_callback>>
  /\ UNCHANGED <<cvars, hvars>>

ExtNext ==
  \/ \E r \in Regions : XOpen(r)
  \/ NClose
  \/ XCreateRef
  \/ XUnlink
  \/ XCollect
  \/ \E r \in Regions : XRelease(r)
  \/ XValid
  \/ XUse

SpecExt == Init /\ [][ExtNext]_vars

\* ------------------------------------------------------------------ merge
\* A merge whose switch splices an Rc region as it does the other types.
MergeCase_RcSpliced(type) == "splice"

\* merge: switch on the type of r's region: RegionTrace::merge,
\* RegionArena::merge, or abort() for Rc.
MergeCase(type) ==
  CASE type = "Trace" -> "splice"
    [] type = "Arena" -> "splice"
    [] type = "Rc" -> "abort"

\* How merge(r) in a region of type `cur` ends when the types differ: the
\* assert stops a build that has asserts; a build without them reaches the
\* switch, which aborts for Rc and otherwise runs the other type's merge on
\* the current region (undefined).
MismatchOutcomes(type) ==
  {"assert", IF MergeCase(type) = "abort" THEN "abort" ELSE "undefined"}

\* RegionTrace::merge / RegionArena::merge: the other region's object list
\* is spliced onto the current region's and the other region's metadata
\* retired.
Splice(sizes, cur, r) == [sizes EXCEPT ![cur] = @ + sizes[r], ![r] = 0]

\* The regions take any types.
MergeInit ==
  /\ ConcInit /\ FreshRegion("Trace") /\ NestFields
  /\ rtypes \in [Regions -> RegionTypes]

\* The thread's calls while the process is running.
MergeOpen(r) == merr = "none" /\ rsize[r] > 0 /\ NOpen(r)

MergeClose == merr = "none" /\ NClose

MergeCreate == merr = "none" /\ NCreate

\* merge(r): r is the entry point of a closed region other than the
\* current one.
NMerge(r) ==
  /\ merr = "none"
  /\ frames # <<>>
  /\ r # get_region(frames)
  /\ rstate[r] = "Closed"
  /\ rsize[r] > 0
  /\ acted' = <<"merge", r>>
  /\ LET cur == get_region(frames) IN
       IF rtypes[r] # rtypes[cur]
         THEN /\ merr' \in MismatchOutcomes(rtypes[r])
              /\ UNCHANGED rsize
         ELSE IF MergeCase(rtypes[r]) = "abort"
           THEN /\ merr' = "abort"
                /\ UNCHANGED rsize
           ELSE /\ rsize' = Splice(rsize, cur, r)
                /\ UNCHANGED merr
  /\ UNCHANGED <<frames, rstate, rowners, xvars, rtypes, gc_callback>>
  /\ UNCHANGED <<cvars, hvars>>

MergeNext ==
  \/ \E r \in Regions : MergeOpen(r)
  \/ MergeClose
  \/ MergeCreate
  \/ \E r \in Regions : NMerge(r)

SpecMerge == MergeInit /\ [][MergeNext]_vars

\* ------------------------------------------------------------------ claims
\* Mutators that hold the region open for work (open_region has returned
\* true and the compare-exchange of close_region has not run yet).
Workers == {m \in Mutators : mpc[m] = "work"}

\* GC tasks that hold the region for collection.
Collectors == {t \in Tasks : tpc[t] \in {"gc_collect", "gc_close"}}

\* C1: at every instant the region has at most one active accessor: one
\* mutator with it Open, or one GC task with it Collecting, or nobody; the
\* state word says which, so a second open for work returns only after the
\* holder's close.
C1_AtMostOneAccessor ==
  /\ Cardinality(Workers) + Cardinality(Collectors) <= 1
  /\ (state = "Open") = (Workers # {})
  /\ (state = "Collecting") = (Collectors # {})
  /\ (state = "Closed") = (Workers = {} /\ Collectors = {})

\* Two opens for work race: one mutator works while the other spins, and a
\* GC task scheduled by an earlier close is about to try its open.
C1_Witness ==
  /\ \E m1, m2 \in Mutators : mpc[m1] = "work" /\ mpc[m2] = "spin"
  /\ \E t \in Tasks : tpc[t] = "gc_open"

\* C2: region_physical_release runs at most once for the region, whoever
\* runs it.
C2_ReleasedAtMostOnce == released <= 1

\* A GC task, not region_release, was the one to release, after several
\* open/close cycles.
C2_Witness ==
  /\ releasedBy = <<"task">>
  /\ rpc = "done"
  /\ opens >= 2

\* No GC task is queued or running and no close is still scheduling one.
Quiescent ==
  /\ \A t \in Tasks : tpc[t] \in {"none", "done", "aborted"}
  /\ \A m \in Mutators : mpc[m] = "idle"

\* C3: once region_release has returned and every GC task scheduled for the
\* region has run to its end, the region has been physically released.
C3_ReleasedNotLeaked == (rpc = "done" /\ Quiescent) => released >= 1

\* C4: the state starts Closed and changes only by Closed->Open and
\* Open->Closed (a mutator's open and close for work) and Closed->Collecting
\* and Collecting->Closed (a GC task's open and close).
C4_Step ==
  state' # state =>
    \/ /\ state = "Closed" /\ state' = "Open"
       /\ \E m \in Mutators : mpc[m] \in {"idle", "spin"} /\ mpc'[m] = "work"
    \/ /\ state = "Open" /\ state' = "Closed"
       /\ \E m \in Mutators : mpc[m] = "work" /\ mpc'[m] = "sched_check"
    \/ /\ state = "Closed" /\ state' = "Collecting"
       /\ \E t \in Tasks : tpc[t] = "gc_open" /\ tpc'[t] = "gc_collect"
    \/ /\ state = "Collecting" /\ state' = "Closed"
       /\ \E t \in Tasks : tpc[t] = "gc_close" /\ tpc'[t] = "gc_dec"

C4_OnlyDocumentedTransitions == (state = "Closed") /\ [][C4_Step]_vars

\* All four transitions have been taken: a GC task has opened and closed
\* the region after a close for work, and a mutator has it Open again.
C4_Witness ==
  /\ state = "Open"
  /\ \E t \in Tasks : tpc[t] \in {"gc_dec", "done"}
  /\ opens >= 2

\* C5 as stated: after region_release has returned, no thread dereferences
\* the region (entry point, state, owners, isAlive) again.
C5_NoDerefAfterRelease == ~lateDeref

\* C5 amended: after the physical release of the region no thread
\* dereferences it again.
C5_NoDerefAfterPhysicalRelease == ~badAccess

\* A GC task scheduled before region_release ran after it returned, read
\* isAlive and owners, and was the one to release the region physically.
C5_Witness ==
  /\ lateDeref
  /\ releasedBy = <<"task">>
  /\ Quiescent

\* ------------------------------------------------------- claims on objects
\* The targets of the fields of the objects of S.
Targets(f, S) == {f[x][i] : x \in S, i \in Fields} \ {Null}

\* The objects reachable from S by following pointers (S included).
RECURSIVE ReachFrom(_, _)
ReachFrom(f, S) ==
  LET N == S \cup Targets(f, S) IN IF N = S THEN S ELSE ReachFrom(f, N)

\* The step is a region_collect() call on a region of the given type.
CollectStep(type) == rtype = type /\ lastOp' = "collect"

\* C6: region_collect on an Rc region never frees an object that is
\* reachable from the entry point by following pointers.
C6_Step == CollectStep("Rc") => ReachFrom(fld, {Entry}) \subseteq alloc'

C6_CollectKeepsReachable == [][C6_Step]_vars

\* region_collect examined a suspicious object that the entry point reaches,
\* freed garbage and kept that object.
C6_Witness ==
  /\ rtype = "Rc"
  /\ lastOp = "collect"
  /\ lastFreed # {}
  /\ lastSusp \cap ReachFrom(fld, {Entry}) \cap alloc # {}

\* C7: immediately after region_collect a Trace region holds exactly the
\* objects reachable from the entry point: debug_size() is their number
\* (entry point included) and the objects freed are exactly the ones that had
\* become unreachable.
C7_Step ==
  CollectStep("Trace") =>
    LET live == ReachFrom(fld, {Entry}) IN
    /\ alloc' = live
    /\ debug_size' = Cardinality(live)
    /\ lastFreed' = alloc \ live
    /\ Cardinality(lastFreed') = Cardinality(alloc) - Cardinality(live)

C7_TraceCollectKeepsExactlyReachable == [][C7_Step]_vars

\* region_collect on a Trace region freed an unreachable object and kept one
\* the entry point reaches.
C7_Witness ==
  /\ rtype = "Trace"
  /\ lastOp = "collect"
  /\ lastFreed # {}
  /\ debug_size = 2
  /\ alloc = ReachFrom(fld, {Entry})

\* The objects of S reachable from T without leaving S.
RECURSIVE ReachIn(_, _)
ReachIn(S, T) ==
  LET N == T \cup (Targets(fld, T) \cap S) IN IF N = T THEN T ELSE ReachIn(S, N)

\* S is a cycle: every object of S reaches every object of S, itself
\* included, along pointers that stay in S.
IsCycle(S) ==
  /\ S # {}
  /\ S \subseteq alloc \ {Entry}
  /\ \A x \in S : S \subseteq ReachIn(S, Targets(fld, {x}) \cap S)

\* Nothing outside S refers to an object of S: no field of another object
\* and no local of the mutator.
NoExternalRef(S) ==
  /\ \A a \in alloc \ S : Targets(fld, {a}) \cap S = {}
  /\ \A x \in S : held[x] = 0

\* The cycles of the region that have no incoming reference from outside.
GarbageCycles == {S \in SUBSET Objs : IsCycle(S) /\ NoExternalRef(S)}

\* C8, as stated: after region_collect no object of any cycle without an
\* incoming reference from outside the cycle is still allocated.
C8_AnyStep ==
  CollectStep("Rc") => \A S \in GarbageCycles : S \cap alloc' = {}

C8_EveryGarbageCycleFreed == [][C8_AnyStep]_vars

\* C8, amended: after region_collect no object of a cycle without an
\* incoming reference from outside is still allocated, provided an object of
\* the cycle is in the suspicious set when region_collect starts.
C8_Step ==
  CollectStep("Rc") =>
    \A S \in GarbageCycles : S \cap lins # {} => S \cap alloc' = {}

C8_SuspiciousGarbageCycleFreed == [][C8_Step]_vars

\* region_collect freed a suspicious object together with an object that
\* was not suspicious itself, and kept an object outside the cycle.
C8_Witness ==
  /\ rtype = "Rc"
  /\ lastOp = "collect"
  /\ lastFreed \cap lastSusp # {}
  /\ lastFreed \ lastSusp # {}
  /\ nextId = Cardinality(lastFreed)

\* Every object of the region besides the entry point lies on a cycle
\* without an incoming reference from outside that has a suspicious member.
OnlySuspiciousGarbageCycles ==
  /\ alloc # {Entry}
  /\ \A x \in alloc \ {Entry} : \E S \in GarbageCycles : x \in S /\ S \cap lins # {}

\* C9: one region_collect call on an Rc region processes the whole
\* suspicious set: when the region holds, besides the entry point, only
\* garbage cycles that each have a suspicious member (one self-loop, one
\* larger cycle, several disjoint cycles), that single call frees them all
\* and leaves the entry point alone, debug_size() == 1.
C9_Step ==
  (CollectStep("Rc") /\ OnlySuspiciousGarbageCycles) =>
    /\ alloc' = {Entry}
    /\ debug_size' = 1
    /\ lastFreed' = alloc \ {Entry}

EdgesInto(F, y) == Cardinality({e \in F \X Fields : fld[e[1]][e[2]] = y})

\* The decrements y receives when x is decref'd and the objects of F are freed.
Decrements(F, x, y) == (IF y = x THEN 1 ELSE 0) + EdgesInto(F, y)

\* The objects whose count reaches zero when x is decref'd: the least set
\* closed under "all of its count is taken away by the decref and by the
\* out-edges of the objects already in the set".
RECURSIVE Cascade(_, _)
Cascade(x, F) ==
  LET N == {y \in alloc : Decrements(F, x, y) > 0 /\ rc[y] <= Decrements(F, x, y)}
  IN IF N = F THEN F ELSE Cascade(x, N)

\* The step is a decref(x) call.
DecrefStep(x) == rtype = "Rc" /\ lastOp' = "decref" /\ held'[x] = held[x] - 1

\* C10: a decref in an Rc region frees exactly the objects whose count it
\* brings to zero, directly or through the out-edges of the objects it
\* frees, and takes one count per such edge from the others; the decref of
\* the root of a tree whose nodes all have count 1 frees the whole tree, and
\* debug_size() is then the number of objects the entry point reaches, the
\* entry point included.
C10_Step ==
  \A x \in Objs :
    DecrefStep(x) =>
      LET F == Cascade(x, {})
          tree == ReachFrom(fld, {x})
      IN /\ alloc' = alloc \ F
         /\ lastFreed' = F
         /\ \A y \in alloc \ F : rc'[y] = rc[y] - Decrements(F, x, y)
         /\ (\A y \in tree : rc[y] = 1) =>
              /\ F = tree
              /\ alloc \subseteq ReachFrom(fld, {Entry}) \cup tree =>
                   debug_size' = Cardinality(ReachFrom(fld', {Entry}))

C10_DecrefFreesExactlyZeroCounts == [][C10_Step]_vars

\* A decref of the root of a two-node tree freed both nodes while the entry
\* point kept nothing.
C10_Witness ==
  /\ rtype = "Rc"
  /\ lastOp = "decref"
  /\ Cardinality(lastFreed) >= 2
  /\ debug_size = Cardinality(ReachFrom(fld, {Entry}))

\* ------------------------------------------- claims on GC tasks and release
\* GC tasks whose isAlive load returned false.
DeadTasks == {t \in Tasks : observed[t] = "dead"}

\* C11, as stated: a GC task that runs after region_release and observes
\* isAlive = false finishes without opening the region and without
\* region_collect; it only decrements owners (it does nothing else: it is
\* never the one to run region_physical_release).
C11_DeadTaskOnlyDecrements ==
  \A t \in DeadTasks : tpc[t] \in {"gc_dec", "done"} /\ tstack[t] = <<>>

\* C11, amended: a GC task that observes isAlive = false never opens the
\* region (it pushes no frame, and Collecting is never its doing) and never
\* runs region_collect; it decrements owners, and when that decrement is the
\* last one it runs region_physical_release.
C11_DeadTaskNeverOpens ==
  /\ \A t \in DeadTasks :
       /\ tpc[t] \in {"gc_dec", "gc_phys", "done"}
       /\ tstack[t] = <<>>
       /\ seen[t] = "none"
       /\ tpc[t] = "gc_phys" => owners = 0
  /\ (state = "Collecting" => \E u \in Tasks \ DeadTasks : tpc[u] \in {"gc_collect", "gc_close"})

\* Scenario S6: one close scheduled the task, region_release returned, then
\* the task ran, observed isAlive = false and finished; the region is Closed.
C11_Witness ==
  /\ opens = 1
  /\ rpc = "done"
  /\ observed[1] = "dead"
  /\ tpc[1] = "done"
  /\ state = "Closed"
  /\ owners = 0

\* C12: the compare-exchange of close_region always succeeds: a thread that
\* is about to run close_region(true) finds the region of its top frame
\* Open, one about to run close_region(false) finds it Collecting, and
\* neither assert has fired.
C12_CloseCasSucceeds ==
  /\ ~assertFailed
  /\ \A m \in Mutators : mpc[m] = "work" => (state = "Open" /\ Head(mstack[m]) = R)
  /\ \A t \in Tasks :
       tpc[t] \in {"gc_collect", "gc_close"} => (state = "Collecting" /\ Head(tstack[t]) = R)

\* A GC task has run close_region(false) after two mutators' close_region(true).
C12_Witness ==
  /\ \E t \in Tasks : tpc[t] = "gc_dec" /\ seen[t] = "Closed"
  /\ opens >= 2
  /\ \A m \in Mutators : mpc[m] = "idle"
  /\ ~assertFailed

\* C13: opening for GC is one-shot.  The one step of open_region(entry,
\* false) either finds the region Open or Collecting, returns false and
\* leaves state, owners, isAlive and the thread's frame stack as they were
\* (the task is then finished: ~UsingRegion calls no close_region), or finds
\* it Closed, makes it Collecting, pushes a frame and returns true.
C13_Step ==
  \A t \in Tasks :
    /\ (tpc[t] = "gc_open" /\ tpc'[t] # "gc_open") =>
         IF state \in {"Open", "Collecting"}
           THEN /\ tpc'[t] = "aborted"
                /\ UNCHANGED <<state, owners, isAlive, tstack>>
           ELSE /\ state = "Closed"
                /\ state' = "Collecting"
                /\ tstack'[t] = push(tstack[t], R)
                /\ tpc'[t] = "gc_collect"
                /\ UNCHANGED <<owners, isAlive>>
    /\ tpc[t] = "aborted" => tpc'[t] = "aborted"

C13_GcOpenIsOneShot == [][C13_Step]_vars

\* The three outcomes have happened: one GC task found the region Open, one
\* found it Collecting, one found it Closed and opened it.
C13_Witness ==
  /\ \E t \in Tasks : tpc[t] = "aborted" /\ seen[t] = "Open" /\ tstack[t] = <<>>
  /\ \E t \in Tasks : tpc[t] = "aborted" /\ seen[t] = "Collecting" /\ tstack[t] = <<>>
  /\ \E t \in Tasks : seen[t] = "Closed"

\* GC tasks that are in flight: scheduled and not yet finished.
InFlight == {t \in Tasks : tpc[t] \notin {"none", "done", "aborted"}}

\* C14: at most one GC task of the region is in flight at any time.
C14_AtMostOneInFlight == Cardinality(InFlight) <= 1

\* The number of GC tasks made so far.
NumMade == Cardinality({u \in Tasks : tpc[u] # "none"})

\* GC tasks that failed to open because a mutator held the region Open.
FailedOnOpen == {t \in Tasks : tpc[t] = "aborted" /\ seen[t] = "Open"}

\* A step of task t's open_region that finds the region busy ends the task:
\* it does not try again and it queues no task; a finished task stays so.
C15_Step ==
  \A t \in Tasks :
    /\ (tpc[t] = "gc_open" /\ state # "Closed" /\ seen'[t] # seen[t]) =>
         (tpc'[t] = "aborted" /\ NumMade' = NumMade)
    /\ (tpc[t] = "gc_open" /\ state # "Closed" /\ tpc'[t] # tpc[t]) =>
         (tpc'[t] = "aborted" /\ NumMade' = NumMade)
    /\ tpc[t] = "aborted" => tpc'[t] = "aborted"

\* C15: a GC task that fails to open its region finishes without retrying
\* and without re-queuing itself, and when it failed because a mutator held
\* the region Open, that mutator's close_region(true) schedules a new GC
\* task afterwards.
C15_FailedGcIsReplaced ==
  /\ [][C15_Step]_vars
  /\ \A n \in 1..MaxOpens :
       (FailedOnOpen # {} /\ Workers # {} /\ NumMade = n) ~> (NumMade > n)

\* Task 1 found the region Open under the second open and finished; the
\* close of that open has queued task 2.
C15_Witness ==
  /\ opens = 2
  /\ tpc[1] = "aborted"
  /\ seen[1] = "Open"
  /\ tpc[2] = "queued"
  /\ \A m \in Mutators : mpc[m] = "idle"

\* A mutator leaves the spin loop only through a compare-exchange that finds
\* the region Closed and makes it Open.
C16_Step ==
  \A m \in Mutators :
    /\ (mpc[m] = "spin" /\ mpc'[m] # "spin") =>
         (state = "Closed" /\ state' = "Open" /\ mpc'[m] = "work"
            /\ mstack'[m] = push(mstack[m], R))
    /\ (mpc[m] = "spin" /\ mpc'[m] = "spin" /\ state' # state) =>
         \E o \in (Mutators \ {m}) \cup Tasks : mpc' # mpc \/ tpc' # tpc

FrameRegions == {frames[i].region : i \in DOMAIN frames}

\* The regions the thread has open.
OpenRegions == {r \in Regions : rstate[r] = "Open"}

\* The frame stack holds one frame, with the region's own entry point, for
\* each region the thread has open, and the last call acted on the region
\* of the top frame.
C17_FramesMatchOpenRegions ==
  /\ FrameRegions = OpenRegions
  /\ Len(frames) = Cardinality(OpenRegions)
  /\ \A i \in DOMAIN frames : frames[i].entry_point = EntryOf(frames[i].region)
  /\ (acted[1] \in ApiCalls \cup {"create_object", "open_region"}) =>
       (frames # <<>> /\ acted[2] = get_region(frames))

\* An allocation adds exactly one object to the region of the top frame and
\* none to any other; closing the inner region brings back the frame, region
\* and entry point that were on top before it was opened.
C17_Step ==
  /\ rsize' # rsize =>
       (frames # <<>> /\ frames' = frames
          /\ rsize' = [rsize EXCEPT ![Head(frames).region] = @ + 1])
  /\ Len(frames') > Len(frames) => (Tail(frames') = frames /\ rsize' = rsize)
  /\ Len(frames') < Len(frames) =>
       /\ frames' = Tail(frames)
       /\ rsize' = rsize
       /\ acted' = <<"close_region", Head(frames).region>>
       /\ rstate'[Head(frames).region] = "Closed"

\* C17: the thread-local frame stack reflects exactly the regions the
\* thread has open, and create_object, incref, decref, region_collect and
\* debug_size act on the region of the top frame: objects allocated while B
\* is open inside A go to B and leave A's count unchanged, and after B is
\* closed the top frame is A again with A's entry point.
C17_TopFrameIsCurrentRegion == []C17_FramesMatchOpenRegions /\ [][C17_Step]_vars

\* B was opened while A was open, an object was allocated in it, B has just
\* been closed and the top frame is A's again, A holding what it held.
C17_Witness ==
  /\ frames = <<Frame("A")>>
  /\ get_entry_point(frames) = EntryOf("A")
  /\ acted = <<"close_region", "B">>
  /\ rowners = [r \in Regions |-> IF r = "B" THEN 2 ELSE 1]
  /\ rsize = [r \in Regions |-> 2]

\* C18: when the owner has opened the region for work, closed it and called
\* region_release, the region has been physically released by the time
\* region_release returns (heap::debug_check_empty() passes right after it).
C18_ReleasedWhenReleaseReturns == (rpc = "done" /\ opens >= 1) => released >= 1

\* The steps of thread m's open_region(entry, true): the compare-exchange
\* that takes the region and pushes the frame.
OpenStepOf(m) == mpc[m] \in {"idle", "spin"} /\ mpc'[m] = "work"

\* The steps of thread m's close_region(true), from its compare-exchange to
\* the pop that ends it.
CloseStepOf(m) ==
  /\ mpc[m] \in {"work", "sched_check", "sched_inc", "sched_post"}
  /\ mpc'[m] # mpc[m]

\* What one step of an open_region / close_region pair does to the region.
C19_Step ==
  \A m \in Mutators :
    /\ OpenStepOf(m) =>
         /\ state = "Closed" /\ state' = "Open"
         /\ mstack'[m] = push(mstack[m], R)
         /\ isAlive' = isAlive
         /\ hvars' = hvars
    /\ CloseStepOf(m) =>
         /\ isAlive' = isAlive
         /\ hvars' = hvars
         /\ mpc[m] = "work" => (state = "Open" /\ state' = "Closed" /\ ~assertFailed')
         /\ mpc[m] # "work" => state' = state
         /\ mpc'[m] = "idle" => mstack'[m] = <<>>
         /\ mpc'[m] # "idle" => mstack'[m] = mstack[m]

\* The frame stack of a thread outside the pair is the stack it had before
\* the open; inside the pair it holds the region's frame on top of that.
C19_StackRestored ==
  \A m \in Mutators :
    /\ mpc[m] \in {"idle", "spin"} => mstack[m] = <<>>
    /\ mpc[m] \in {"work", "sched_check", "sched_inc", "sched_post"} => mstack[m] = <<R>>

C20_IncrefDecrefIsIdentity ==
  rtype = "Rc" =>
    \A x \in alloc :
      rc[x] >= 1 =>
        LET h == decref(incref(Heap, x), x) IN
          /\ h.rc[x] = rc[x]
          /\ h.rc = rc
          /\ h.alloc = alloc
          /\ Cardinality(h.alloc) = debug_size

\* The pair has run on the one object allocated so far: the object still has
\* its count of 1 and the decref left it on the suspicious set.
C20_Witness ==
  /\ rtype = "Rc" /\ InRegion
  /\ lastOp = "decref" /\ lastFreed = {}
  /\ alloc = {Entry, 1} /\ rc[1] = 1 /\ held[1] = 1
  /\ 1 \in lins

\* C21: region_collect is idempotent on the set of live objects: for a
\* region of any type and any object graph, a second region_collect with no
\* mutation in between leaves exactly the objects the first one left.
C21_CollectIsIdempotent ==
  LET once == region_collect(Heap, rtype)
      twice == region_collect(once, rtype)
  IN /\ twice.alloc = once.alloc
     /\ lastOp = "collect" => once.alloc = alloc

\* A region_collect has just freed something (a second one is about to run
\* on what it left).
C21_Witness == lastOp = "collect" /\ lastFreed # {} /\ InRegion

\* A region_collect on an Arena region leaves every object, field and count
\* as it was; no operation on the open Arena region frees an object.
C22_Step ==
  rtype = "Arena" =>
    /\ alloc \subseteq alloc'
    /\ lastOp' = "collect" =>
         /\ alloc' = alloc /\ fld' = fld /\ rc' = rc /\ lins' = lins
         /\ Cardinality(alloc') = debug_size

\* C22: region_collect on an Arena region frees nothing and changes nothing
\* in the region: debug_size() is the same before and after the call even
\* when objects are unreachable, and no other operation on the open region
\* frees an arena object either (only the release of the region does).
C22_ArenaCollectIsNoOp ==
  /\ [](rtype = "Arena" => region_collect(Heap, rtype) = Heap)
  /\ [][C22_Step]_vars

\* region_collect has run on an Arena region that holds an object the entry
\* point does not reach, and the object is still there.
C22_Witness ==
  /\ rtype = "Arena"
  /\ lastOp = "collect"
  /\ alloc \ ReachFrom(fld, {Entry}) # {}
  /\ debug_size = 3

\* The handle's target is still allocated: it was not freed by a collection
\* and its region has not been released.
TargetLive == xref # NoRef /\ xtarget \in {"reachable", "unreachable"} /\ xalive[xref.region]

\* A call that returns true, or a use whose assert passes, happens in the
\* creating region with the target allocated; a dead handle stays dead.
C23_Step ==
  /\ (acted'[1] = "is_external_reference_valid" /\ xres' = "true") =>
       (frames # <<>> /\ get_region(frames) = xref.region /\ TargetLive)
  /\ (acted'[1] = "use_external_reference" /\ ~xassert') =>
       (frames # <<>> /\ get_region(frames) = xref.region /\ TargetLive)
  /\ (xref # NoRef /\ ~TargetLive) => (xref' = xref /\ ~TargetLive')

C24_Step ==
  (acted' # acted /\ acted'[1] = "merge") =>
    LET r == acted'[2]
        cur == get_region(frames)
    IN /\ rtypes[r] # rtypes[cur] => (merr' # "none" /\ rsize' = rsize)
       /\ (rtypes[r] = "Rc" /\ rtypes[cur] = "Rc") =>
            (merr' = "abort" /\ rsize' = rsize /\ rstate' = rstate /\ frames' = frames)
       /\ (merr' = "none") =>
            /\ rtypes[r] = rtypes[cur] /\ rtypes[r] \in {"Trace", "Arena"}
            /\ rsize'[cur] = rsize[cur] + rsize[r]
            /\ rsize'[r] = 0
       /\ rsize' # rsize => (merr' = "none" /\ rtypes[r] \in {"Trace", "Arena"})

\* C24: merge(r) is an error unless the current region and r's region have
\* the same type; for two Rc regions it aborts the process without splicing
\* anything or changing either region; only Trace and Arena regions are
\* merged, and then r's objects become objects of the current region.
C24_MergeOnlyTraceAndArena ==
  /\ [](merr = "none" \/ acted[1] = "merge")
  /\ [][C24_Step]_vars

\* merge was called in an Rc region on another Rc region that holds more
\* than its entry point, and the process aborted with both regions as they
\* were.
C24_Witness ==
  /\ acted[1] = "merge" /\ merr = "abort"
  /\ frames # <<>>
  /\ rtypes[acted[2]] = "Rc" /\ rtypes[get_region(frames)] = "Rc"
  /\ rsize[acted[2]] = 2

\* The owner's own count: held until the task_dec of region_release.
OwnerHolds == IF rpc \in {"idle", "dec"} THEN 1 ELSE 0

\* GC tasks that hold a count: scheduled, task_dec not yet run.
TasksHolding == {t \in Tasks : tpc[t] \in {"queued", "gc_open", "gc_collect", "gc_close", "gc_dec"}}

\* Closes that have done task_inc for a task they are about to submit.
ClosesHolding == {m \in Mutators : mpc[m] = "sched_post"}

\* C25: owners counts exactly the outstanding holders of the region: 1 for
\* the owner until region_release, plus one for every GC task scheduled and
\* not yet finished; every GC task gives its count back before it finishes,
\* whether it collected, found the region dead or failed to open it.
C25_OwnersCountsHolders ==
  owners = OwnerHolds + Cardinality(TasksHolding) + Cardinality(ClosesHolding)

\* C26: apart from the atomic words state, owners and isAlive, the region's
\* internal structures are read or written only by the thread that holds
\* the region (the mutator that has it Open, the GC task that has it
\* Collecting): the type-specific work of close_region (RegionRc::close) is
\* finished before any other thread is able to open the region.
C26_InternalsOnlyByHolder == ~raced

\* GC tasks that are running region_collect or have just run it.
CollectingTasks == {t \in Tasks : tpc[t] \in {"gc_collect", "gc_close"}}

\* C27, as stated: a GC task runs region_collect only on a region whose
\* isAlive is still true while the collection runs, never on a region for
\* which region_release has already been called.
C27_NeverCollectsDeadRegion == \A t \in Tasks : tpc[t] = "gc_collect" => isAlive

\* C27, as the code has it: a GC task runs region_collect only if its own
\* load of isAlive returned true, and the region's memory is not returned to
\* the allocator while it collects; region_release may come between the load
\* and the collection.
C27_CollectsOnlyIfSeenAlive ==
  \A t \in CollectingTasks : observed[t] = "alive" /\ ~freed /\ owners >= 1

\* A GC task is collecting a region that region_release was called on after
\* the task had loaded isAlive.
C27_Witness ==
  \E t \in Tasks : tpc[t] = "gc_collect" /\ observed[t] = "alive" /\ ~isAlive /\ rpc = "done"

\* What each step of a close does to owners and to the set of GC tasks.
C28_Step ==
  /\ \A m \in Mutators :
       /\ (mpc[m] = "sched_check" /\ mpc'[m] # mpc[m]) =>
            /\ owners' = owners /\ tpc' = tpc
            /\ isAlive => mpc'[m] = "sched_inc"
            /\ ~isAlive => mpc'[m] = "idle"
       /\ (mpc[m] = "sched_inc" /\ mpc'[m] # mpc[m]) =>
            (mpc'[m] = "sched_post" /\ owners' = owners + 1 /\ tpc' = tpc)
       /\ (mpc[m] = "sched_post" /\ mpc'[m] # mpc[m]) =>
            /\ mpc'[m] = "idle" /\ owners' = owners
            /\ NumMade' = NumMade + 1
            /\ \E t \in Tasks :
                 /\ tpc[t] = "none" /\ tpc'[t] = "queued"
                 /\ \A u \in Tasks \ {t} : tpc'[u] = tpc[u]
  /\ \A t \in Tasks :
       (tpc[t] = "gc_close" /\ tpc'[t] # tpc[t]) =>
         (owners' = owners /\ NumMade' = NumMade /\ mpc' = mpc)
  /\ owners' > owners =>
       (owners' = owners + 1 /\ \E m \in Mutators : mpc[m] = "sched_inc" /\ mpc'[m] = "sched_post")
  /\ NumMade' # NumMade =>
       \E m \in Mutators : mpc[m] = "sched_post" /\ mpc'[m] = "idle"

C29_Step ==
  rtype = "Rc" =>
    /\ lastOp' = "decref" => (lins' \cap (alloc \ alloc') = {})
    /\ lastOp' = "collect" => (lins \subseteq alloc)

\* C29: the suspicious set of an Rc region never contains a freed object: an
\* object put on the set by a decref that left its count above zero and
\* later freed by another decref leaves the set at that moment, so
\* region_collect never starts mark-red from it (in scenario S5 n2, still
\* referenced by the entry point, stays allocated and debug_size() stays 2).
C29_SuspiciousSetHoldsNoFreedObject ==
  /\ [](rtype = "Rc" => lins \subseteq alloc)
  /\ [](rtype = "Rc" /\ lastOp = "decref" /\ 1 \in lastSusp /\ lastFreed = {1}
          /\ alloc = {Entry, 2} /\ fld[Entry][2] = 2 =>
            LET h == region_collect(Heap, rtype) IN
              h.alloc = alloc /\ 2 \in h.alloc /\ Cardinality(h.alloc) = 2)
  /\ [][C29_Step]_vars

\* Scenario S5 before its region_collect: n1 was on the suspicious set and
\* the second decref(n1) has freed it; n2 is referenced by the entry point.
C29_Witness ==
  /\ rtype = "Rc"
  /\ lastOp = "decref" /\ lastFreed = {1} /\ 1 \in lastSusp
  /\ alloc = {Entry, 2} /\ fld[Entry][2] = 2 /\ rc[2] = 1
  /\ debug_size = 2

\* ------------------------------------------ the distant-cycle test (Rc)
\* The heap of a fresh Rc region: the entry point alone.
FreshHeap ==
  [alloc |-> {Entry}, fld |-> [x \in Cells |-> NoFields],
   rc |-> [x \in Cells |-> IF x = Entry THEN 1 ELSE 0], lins |-> {},
   colour |-> [x \in Cells |-> "green"], jump |-> <<>>, mark |-> {}]

\* a->f = x: a plain pointer store.
SetField(h, a, i, x) == [h EXCEPT !.fld[a][i] = x]

\* n1, n2, n3 = new C; o->f1 = n1; n1->f1 = n2; n2->f1 = n3; n3->f1 = n2;
\* incref(n2).
DistantBuilt ==
  LET h1 == create_object(FreshHeap, "Rc", 1)
      h2 == create_object(h1, "Rc", 2)
      h3 == create_object(h2, "Rc", 3)
      h4 == SetField(h3, Entry, 1, 1)
      h5 == SetField(h4, 1, 1, 2)
      h6 == SetField(h5, 2, 1, 3)
      h7 == SetField(h6, 3, 1, 2)
  IN incref(h7, 2)

\* o->f1 = nullptr; decref(n1).
DistantAfterDecref == decref(SetField(DistantBuilt, Entry, 1, Null), 1)

\* region_collect().
DistantAfterCollect == region_collect(DistantAfterDecref, "Rc")

\* A decref step puts every object whose count it lowered and left above
\* zero on the suspicious set: the object it was called on and the targets
\* its cascade reached.
C30_Step ==
  (rtype = "Rc" /\ lastOp' = "decref") =>
    \A y \in alloc' : rc'[y] < rc[y] => y \in lins'

\* After a decref that freed an object, a region_collect frees every cycle
\* without outside references that holds an object the decref lowered.
C30_CycleBehindFreedObjectCollected ==
  (rtype = "Rc" /\ lastOp = "decref" /\ lastFreed # {}) =>
    \A S \in GarbageCycles :
      S \cap (lins \ lastSusp) # {} => S \cap region_collect(Heap, rtype).alloc = {}

\* C30: when a decref frees an object and the cascading decrement leaves one
\* of its targets with a count above zero, that target is added to the
\* suspicious set, so a cycle that was reachable only through the freed
\* object is freed by the next region_collect: with o->n1->n2, n2<->n3,
\* removing o->n1 and decref(n1) frees only n1 (debug_size() = 3), and
\* region_collect then frees n2 and n3 (debug_size() = 1).
C30_CascadeTargetsBecomeSuspicious ==
  /\ [](/\ DistantAfterDecref.alloc = {Entry, 2, 3}
        /\ Cardinality(DistantAfterDecref.alloc) = 3
        /\ 2 \in DistantAfterDecref.lins
        /\ DistantAfterCollect.alloc = {Entry}
        /\ Cardinality(DistantAfterCollect.alloc) = 1)
  /\ []C30_CycleBehindFreedObjectCollected
  /\ [][C30_Step]_vars

\* decref(n1) has freed n1, and its cascade has put n2, which points to
\* itself and is referenced by nothing else, on the suspicious set; the next
\* region_collect frees it.
C30_Witness ==
  /\ rtype = "Rc"
  /\ lastOp = "decref" /\ lastFreed = {1}
  /\ 2 \in lins \ lastSusp
  /\ {2} \in GarbageCycles
  /\ region_collect(Heap, rtype).alloc = {Entry}
  /\ debug_size = 2

\* ----------------------------------------- claims on the phases of gc_cycles
\* The heap after mark-red from the suspicious object r.
AfterMarkRed(r) == mark_red([Heap EXCEPT !.lins = @ \ {r}], r)

\* The heap after mark-red and scan from r.
AfterScan(r) == scan(AfterMarkRed(r), r)

\* The heap after mark-red, scan and collect from r.
AfterCollectRed(r) == CollectRed(AfterScan(r))

\* The objects mark-red from r coloured red and left with a count above
\* zero: the ones something outside the red subgraph refers to.
LiveRed(r) == {y \in Cells : AfterMarkRed(r).colour[y] = "red" /\ AfterMarkRed(r).rc[y] > 0}

\* The objects mark-red from r drove to a count of zero.
ZeroRed(r) == {y \in Cells \ {r} : AfterMarkRed(r).colour[y] = "red" /\ AfterMarkRed(r).rc[y] = 0}

AboutToRelease == rpc = "phys" \/ \E t \in Tasks : tpc[t] = "gc_phys"

\* The GC tasks that were scheduled and have not yet returned, the one that
\* is about to run region_physical_release left out.
UnfinishedTasks == {t \in Tasks : tpc[t] \in {"queued", "gc_open", "gc_collect", "gc_close", "gc_dec"}}

\* The GC tasks between their open and their close of the region.
TasksInside == {t \in Tasks : tpc[t] \in {"gc_collect", "gc_close"}}

\* C32: region_physical_release runs only while the region is Closed, no GC
\* task is between its open and its close and no GC task is pending, and it
\* runs once; after it no GC task has a step left to do on the region and
\* none has touched it.
C32_ReleasedOnlyWhenNobodyHolds ==
  /\ AboutToRelease =>
       /\ state = "Closed"
       /\ TasksInside = {}
       /\ UnfinishedTasks = {}
       /\ \A m \in Mutators : mpc[m] = "idle"
       /\ Cardinality({t \in Tasks : tpc[t] = "gc_phys"}) + (IF rpc = "phys" THEN 1 ELSE 0) = 1
       /\ ~freed
  /\ freed =>
       /\ released = 1
       /\ state = "Closed"
       /\ \A t \in Tasks : tpc[t] \in {"none", "done", "aborted"}
       /\ \A t \in Tasks : tstack[t] = <<>>
       /\ ~badAccess

\* The last GC task released the region after the owner let go of it and
\* after another GC task had collected it.
C32_Witness ==
  /\ freed
  /\ releasedBy = <<"task">>
  /\ \E t \in Tasks : tpc[t] = "done" /\ observed[t] = "dead"
  /\ \E t \in Tasks : tpc[t] = "done" /\ observed[t] = "alive" /\ seen[t] = "Closed"

\* ------------------------------------------------ claims on isAlive / owners
\* One step's changes of isAlive and owners: isAlive only goes from true to
\* false, in region_release's store; owners is decremented by one, and only
\* from a value of at least 1.
C33_AliveOwnersStep ==
  /\ isAlive' # isAlive => (isAlive /\ ~isAlive' /\ rpc = "idle" /\ rpc' = "dec")
  /\ owners' < owners => (owners >= 1 /\ owners' = owners - 1)

\* C33: isAlive starts true, only region_release sets it to false and it
\* never becomes true again; while isAlive is true owners is at least 1,
\* owners is 0 only when isAlive is false, and owners is never decremented
\* when it is already 0.
C33_AliveMonotoneOwnersNeverWrap ==
  /\ isAlive = TRUE /\ owners = 1
  /\ []((isAlive => owners >= 1) /\ (owners = 0 => ~isAlive) /\ owners >= 0)
  /\ [][C33_AliveOwnersStep]_vars

\* The region was released and the count is at zero, after mutators worked
\* in it and GC tasks decremented the count.
C33_Witness ==
  /\ ~isAlive
  /\ owners = 0
  /\ opens > 0
  /\ \E t \in Tasks : tpc[t] = "done"

\* ------------------------------------------ claims on what a collection leaves
\* The number of references the objects of S have to x.
RefsFrom(S, x) == Cardinality({p \in S \X Fields : fld[p[1]][p[2]] = x})

\* A region_collect step on an Rc region: the survivors' counts are the old
\* ones less the references from the objects the call freed, and nothing is
\* suspicious afterwards.
C34_Step ==
  (rtype = "Rc" /\ lastOp' = "collect") =>
    /\ lins' = {}
    /\ alloc' \subseteq alloc
    /\ \A x \in alloc' : rc'[x] = rc[x] - RefsFrom(alloc \ alloc', x)

\* C34: region_collect on an Rc region leaves no trace of its trial work:
\* every surviving object's count is its count before the call minus the
\* number of references it had from objects freed by the call, no surviving
\* object is still red, the jump stack is empty and the suspicious set is
\* empty.
C34_CollectLeavesNoTrialWork ==
  /\ [](rtype = "Rc" =>
          LET c == region_collect(Heap, rtype) IN
            /\ \A x \in c.alloc : c.colour[x] # "red"
            /\ c.jump = <<>>
            /\ c.lins = {})
  /\ [][C34_Step]_vars

\* A region_collect on an Rc region is about to free an object that refers
\* to an object that survives with a smaller count.
C34_Witness ==
  /\ rtype = "Rc"
  /\ InRegion
  /\ LET c == region_collect(Heap, rtype) IN
       \E x \in c.alloc :
         /\ RefsFrom(alloc \ c.alloc, x) > 0
         /\ c.rc[x] = rc[x] - RefsFrom(alloc \ c.alloc, x)
         /\ c.rc[x] > 0

\* The heap a Trace collection leaves, with field i of object a set to null.
AfterCut(a, i) == SetField(region_collect(Heap, rtype), a, i, Null)

\* C35: after the sweep phase of a Trace collection no surviving object is
\* marked, so a later region_collect, after a pointer has been removed,
\* leaves exactly the objects the entry point still reaches: it frees the
\* objects that survived the earlier collection and are now unreachable.
C35_SweepClearsMarks ==
  rtype = "Trace" =>
    /\ region_collect(Heap, rtype).mark = {}
    /\ \A a \in region_collect(Heap, rtype).alloc : \A i \in Fields :
         region_collect(AfterCut(a, i), rtype).alloc = ReachFrom(AfterCut(a, i).fld, {Entry})

\* A Trace collection has just run and left an object; with one pointer
\* removed, the next collection frees that object.
C35_Witness ==
  /\ rtype = "Trace"
  /\ lastOp = "collect"
  /\ \E x \in alloc \ {Entry} : \E a \in alloc : \E i \in Fields :
       /\ x \in region_collect(Heap, rtype).alloc
       /\ x \notin region_collect(AfterCut(a, i), rtype).alloc

\* ---------------------------------------------------- claims on quiescence
\* A step of a GC task that was already made makes no GC task; only the
\* close of a mutator does, and never more tasks than there were opens.
C36_Step ==
  /\ (\E t \in Tasks : tpc[t] # "none" /\ tpc'[t] # tpc[t]) => NumMade' = NumMade
  /\ NumMade' > NumMade =>
       /\ NumMade' = NumMade + 1
       /\ \E m \in Mutators : mpc[m] = "sched_post" /\ mpc'[m] = "idle"

\* Every mutator is outside the region and every GC task that was made has
\* run to its end: the region is Closed, no thread has a frame for it and
\* no task is pending.
C36_AtRest ==
  /\ \A m \in Mutators : mpc[m] = "idle" /\ mstack[m] = <<>>
  /\ \A t \in Tasks : tpc[t] \in {"none", "done", "aborted"} /\ tstack[t] = <<>>
  /\ state = "Closed"
  /\ Workers = {} /\ Collectors = {}

\* C36: background collection quiesces: a GC task never schedules another
\* GC task, so the mutators' finitely many open/close cycles make finitely
\* many GC tasks (at most one per open), and once these have all run the
\* region is Closed with no accessor and no pending task, and stays so.
C36_BackgroundCollectionQuiesces ==
  /\ [][C36_Step]_vars
  /\ [](NumMade <= opens)
  /\ [](Quiescent => C36_AtRest)
  /\ <>[]C36_AtRest

\* Every open the mutators made was closed and scheduled its GC task, two
\* of them collected, and all of them have run: the region is at rest.
C36_Witness ==
  /\ C36_AtRest
  /\ opens = MaxOpens
  /\ NumMade = opens
  /\ Cardinality({t \in Tasks : tpc[t] = "done" /\ seen[t] = "Closed"}) >= 2

\* ===================================================== the GC callback
\* One mutator thread (MainThread, mutator 1) works in the region and a
\* scheduler thread (WorkerThread) runs the GC tasks its closes schedule;
\* either thread may set a callback in its own RegionContext.  The handlers
\* run one at a time here: their interleavings are those of Spec.
MainMutator == 1

\* The variables of the nested regions, which these threads leave alone.
nestvars == <<frames, rstate, rsize, rowners, acted, xvars, rtypes, merr>>

\* RegionContext::set_gc_callback(callback) on thread th.
CbSet(th, c) ==
  /\ c # gc_callback[th]
  /\ gc_callback' = set_gc_callback(gc_callback, th, c)
  /\ UNCHANGED <<cvars, hvars, nestvars>>

\* close_region(true) on the main thread: Open -> Closed, schedule_gc
\* (task_inc, Scheduler::schedule), pop.
CbClose ==
  /\ mpc[MainMutator] = "work"
  /\ state = "Open"
  /\ \E t \in Tasks : tpc[t] = "none"
  /\ state' = "Closed"
  /\ owners' = OwnersAfterInc
  /\ tpc' = [tpc EXCEPT ![NextTask] = "queued"]
  /\ mstack' = [mstack EXCEPT ![MainMutator] = pop(@)]
  /\ mpc' = [mpc EXCEPT ![MainMutator] = "idle"]
  /\ UNCHANGED <<isAlive, opens, tstack, rpc, releasedBy, badAccess, lateDeref,
                 assertFailed, observed, seen, found, raced>>
  /\ UNCHANGED <<hvars, nvars>>

\* open_region(entry, true) on the main thread, once the region is Closed.
CbOpen ==
  /\ mpc[MainMutator] = "idle"
  /\ state = WorkOpenExpected
  /\ opens < MaxOpens
  /\ opens' = opens + 1
  /\ state' = WorkOpenTarget
  /\ mstack' = [mstack EXCEPT ![MainMutator] = push(@, R)]
  /\ mpc' = [mpc EXCEPT ![MainMutator] = "work"]
  /\ UNCHANGED <<owners, isAlive, tpc, tstack, rpc, releasedBy, badAccess, lateDeref,
                 assertFailed, observed, seen, found, raced>>
  /\ UNCHANGED <<hvars, nvars>>

\* The gc_task closure run by the worker thread: isAlive is true; if the
\* open for collection succeeds, region_collect (with its report to the
\* worker thread's callback), close and task_dec; if not, it returns.
CbGcTask(t) ==
  /\ tpc[t] = "queued"
  /\ observed' = [observed EXCEPT ![t] = "alive"]
  /\ seen' = [seen EXCEPT ![t] = state]
  /\ IF GcOpenSucceeds
       THEN /\ InstallHeap(region_collect(Heap, rtype), "collect")
            /\ Report(WorkerThread)
            /\ owners' = OwnersAfterDec
            /\ tpc' = [tpc EXCEPT ![t] = "done"]
            /\ UNCHANGED <<rtype, held, nextId>>
       ELSE /\ tpc' = [tpc EXCEPT ![t] = AfterFailedOpen]
            /\ UNCHANGED <<owners, hvars>>
  /\ UNCHANGED <<state, isAlive, mpc, mstack, opens, tstack, rpc, releasedBy,
                 badAccess, lateDeref, assertFailed, found, raced>>
  /\ UNCHANGED nvars

CbInit == OpenedInit /\ NestInit /\ \E type \in RegionTypes : FreshRegion(type)

CbNext ==
  \/ \E th \in CbThreads, c \in Callbacks \cup {NoCallback} : CbSet(th, c)
  \/ HNew
  \/ \E a \in Cells, i \in Fields, x \in Cells \cup {Null} : HSet(a, i, x)
  \/ \E x \in Objs : HDecref(x)
  \/ HCollect
  \/ CbClose
  \/ CbOpen
  \/ \E t \in Tasks : CbGcTask(t)

SpecCb == CbInit /\ [][CbNext]_vars

\* ------------------------------------------------ claims on the GC callback
\* The step is a region_collect of the main thread.
MainCollects ==
  lastOp' = "collect" /\ tpc' = tpc /\ mpc' = mpc /\ gc_callback' = gc_callback

\* The step is a GC task's region_collect on the worker thread.
WorkerCollects == \E t \in Tasks : tpc[t] = "queued" /\ tpc'[t] = "done"

\* What a region_collect step of thread th reports: one call of th's own
\* callback with the type and the figures of before the step and no log
\* line, or, with no callback set on th, one log line and no call.
ReportedBy(th) ==
  IF gc_callback[th] # NoCallback
    THEN /\ lastLogs' = 0
         /\ Len(lastCalls') = 1
         /\ lastCalls'[1].callback = gc_callback[th]
         /\ lastCalls'[1].thread = th
         /\ lastCalls'[1].type = rtype
         /\ lastCalls'[1].obj = Cardinality(alloc)
         /\ lastCalls'[1].mem = Cardinality(alloc) * (1 + NumFields)
    ELSE lastCalls' = <<>> /\ lastLogs' = 1

C37_Step ==
  /\ MainCollects => ReportedBy(MainThread)
  /\ WorkerCollects => ReportedBy(WorkerThread)
  /\ lastOp' \notin {"collect", "decref"} => (lastCalls' = <<>> /\ lastLogs' = 0)

\* C37: the GC callback is per-thread and reports pre-collection figures:
\* with a callback set on the calling thread, each region_collect invokes it
\* exactly once with the region's type and the byte and object counts
\* measured before the collection, and writes no default log line; a
\* callback set on one thread is never invoked for a collection that a GC
\* task runs on another thread.
C37_CallbackPerThreadPreFigures ==
  /\ [](\A i \in DOMAIN lastCalls :
          lastCalls[i].callback # NoCallback /\ lastLogs = 0 /\ Len(lastCalls) = 1)
  /\ [][C37_Step]_vars

\* After a GC task had collected on the worker thread, the main thread's
\* region_collect freed something and called the main thread's callback
\* with the object count of before the collection; the worker thread has
\* no callback.
C37_Witness ==
  /\ lastOp = "collect"
  /\ mpc[MainMutator] = "work"
  /\ \E t \in Tasks : tpc[t] = "done"
  /\ gc_callback[WorkerThread] = NoCallback
  /\ Len(lastCalls) = 1
  /\ lastCalls[1].thread = MainThread
  /\ lastCalls[1].callback = gc_callback[MainThread]
  /\ lastFreed # {}
  /\ lastCalls[1].obj = Cardinality(alloc) + Cardinality(lastFreed)

====
